---- MODULE Spec2Model ----
(***************************************************************************)
(* Model of src/t.py: the literal text replacers, the extension            *)
(* dispatcher (process_single_file) and the archive batch processor        *)
(* (extract_zip_and_process).                                              *)
(*                                                                         *)
(* Strings are sequences of tokens.  A path is a sequence of tokens such   *)
(* as <<"uploads", "/", "u0", "_", "a", ".csv">>.  The token alphabet is   *)
(* prefix-free and only the extension tokens contain a dot, so Python's    *)
(* character-level str.replace('.csv', '_modified.csv') on a path is       *)
(* exactly the token-level replacement of ".csv" by "_modified", ".csv".   *)
(***************************************************************************)
EXTENDS Integers, Sequences, FiniteSets, TLC

VARIABLES
    fs,               \* files on disk: path -> content
    dirs,             \* directories on disk: set of paths
    fs0,              \* the files on disk when the invocation started
    old_text,         \* the text to find
    new_text,         \* the replacement
    zip_path,         \* argument of extract_zip_and_process
    extract_folder,   \* the scratch directory of the invocation
    pc,               \* position inside extract_zip_and_process
    pendingDirs,      \* os.walk: directories discovered and not yet listed
    curFiles,         \* os.walk: files of the listed directory not yet visited
    processed_files,  \* the list built by the walk
    unpacked,         \* the files extractall wrote
    calls,            \* every call of process_single_file, in order
    outcome,          \* "running", "returned" or "raised"
    ret,              \* the value returned
    value,            \* a cell, text, tail or attribute value given to the substitution
    result,           \* what the substitution made of value, and at which site
    table,            \* the table a tabular replacer reads
    output,           \* the table a tabular replacer writes
    tree,             \* the element tree the markup replacer parses
    outTree,          \* the element tree the markup replacer writes
    pass1,            \* round trip: what the first pass made of value
    pass2,            \* round trip: what the second pass made of pass1
    page,             \* the page of the document being processed
    page0,            \* the page as it was when the document was opened
    pdfpc,            \* position inside the page loop of replace_text_in_pdf
    text_instances,   \* the regions page.search_for returned
    original_text_info, \* the blocks page.get_text("dict") returned
    inserted,         \* the font sizes page.insert_text was called with
    request,          \* upload_file: the files of the request still to handle
    upc,              \* position inside upload_file
    temp_files,       \* upload_file: the uploads saved so far
    sent_files,       \* upload_file: the outputs to deliver and to clean up
    response,         \* upload_file: the response returned
    cleaner,          \* the cleanup thread: "none", "sleeping" or "done"
    reader,           \* the client: "none", "reading" or "done"
    procs,            \* parallel invocations: the state of each
    touched           \* parallel invocations: the paths each wrote or deleted

\* the state of the file-level operations
fileVars == <<fs, dirs, fs0, zip_path, extract_folder, pc, pendingDirs, curFiles,
              processed_files, unpacked, calls, outcome, ret>>

\* the state of the value-level and table-level operations
pureVars == <<value, result, table, output>>

\* the state of the markup, round-trip and paginated-document operations
docVars == <<tree, outTree, pass1, pass2, page, page0, pdfpc, text_instances,
             original_text_info, inserted>>

\* the state of upload_file, its cleanup thread and parallel invocations
webVars == <<request, upc, temp_files, sent_files, response, cleaner, reader,
             procs, touched>>

vars == <<fs, dirs, fs0, old_text, new_text, zip_path, extract_folder, pc,
          pendingDirs, curFiles, processed_files, unpacked, calls, outcome, ret,
          value, result, table, output,
          tree, outTree, pass1, pass2, page, page0, pdfpc, text_instances,
          original_text_info, inserted,
          request, upc, temp_files, sent_files, response, cleaner, reader,
          procs, touched>>

----------------------------------------------------------------------------
(* Bounds *)

MaxMembers == 3
MaxFiles == 2
MaxCalls == 2
MaxLen == 3
MaxOld == 2
MaxNew == 2
MaxCols == 2
MaxRows == 2
MaxChildren == 2
MaxBlocks == 2

----------------------------------------------------------------------------
(* Text substitution *)

\* a letter without its case
Fold(c) == IF c = "F" THEN "f" ELSE c

\* Find comparing without regard to case
RECURSIVE FindNoCase(_, _, _)
FindNoCase(s, old, i) ==
    IF i + Len(old) - 1 > Len(s) THEN 0
    ELSE IF [k \in 1 .. Len(old) |-> Fold(s[i + k - 1])] = [k \in 1 .. Len(old) |-> Fold(old[k])]
         THEN i
    ELSE FindNoCase(s, old, i + 1)

\* str.find: the lowest index >= i at which old occurs in s, 0 when none
RECURSIVE Find(_, _, _)
Find(s, old, i) ==
    IF i + Len(old) - 1 > Len(s) THEN 0
    ELSE IF SubSeq(s, i, i + Len(old) - 1) = old THEN i
    ELSE Find(s, old, i + 1)

\* `old in s`
Contains(s, old) == Find(s, old, 1) # 0

\* str.replace(old, new) for a non-empty old: scan left to right, copy up to
\* the next occurrence, emit new, resume after the occurrence
RECURSIVE PyReplace(_, _, _)
PyReplace(s, old, new) ==
    LET i == Find(s, old, 1)
    IN  IF i = 0 THEN s
        ELSE SubSeq(s, 1, i - 1) \o new
             \o PyReplace(SubSeq(s, i + Len(old), Len(s)), old, new)

----------------------------------------------------------------------------
(* Paths *)

ExtTokens == {".pdf", ".csv", ".xml", ".xpt", ".zip", ".txt",
              ".PDF", ".CSV", ".ZIP"}

\* str.lower on an extension
Lower(t) ==
    CASE t = ".PDF" -> ".pdf"
      [] t = ".CSV" -> ".csv"
      [] t = ".ZIP" -> ".zip"
      [] OTHER -> t

\* index of the last "/" of p, 0 when there is none
RECURSIVE LastSlash(_, _)
LastSlash(p, i) ==
    IF i = 0 THEN 0
    ELSE IF p[i] = "/" THEN i
    ELSE LastSlash(p, i - 1)

\* os.path.basename
Basename(p) == SubSeq(p, LastSlash(p, Len(p)) + 1, Len(p))

\* os.path.dirname
Dirname(p) == SubSeq(p, 1, LastSlash(p, Len(p)) - 1)

\* os.path.join(root, name)
Join(root, name) == root \o <<"/">> \o name

\* os.path.splitext(p)[1]: the last dotted suffix of the base name, empty
\* when the base name has no dot after its first character
SplitExt(p) ==
    LET b == Basename(p)
    IN  IF Len(b) >= 2 /\ b[Len(b)] \in ExtTokens THEN b[Len(b)] ELSE ""

\* q lies inside directory d
Under(q, d) ==
    /\ Len(q) > Len(d) + 1
    /\ SubSeq(q, 1, Len(d)) = d
    /\ q[Len(d) + 1] = "/"

UPLOAD_FOLDER == <<"uploads">>

----------------------------------------------------------------------------
(* File contents *)

Text(body) == [kind |-> "text", body |-> body, entries |-> <<>>]
Corrupt == [kind |-> "corrupt", body |-> <<>>, entries |-> <<>>]
Zip(entries) == [kind |-> "zip", body |-> <<>>, entries |-> entries]
BadZip(entries) == [kind |-> "badzip", body |-> <<>>, entries |-> entries]

NoneRet == [isNone |-> TRUE, path |-> <<>>]
PathRet(p) == [isNone |-> FALSE, path |-> p]

\* the file system after path q is (over)written with content c
WriteFile(fsx, q, c) ==
    [p \in DOMAIN fsx \cup {q} |-> IF p = q THEN c ELSE fsx[p]]

\* open(q, 'w') succeeds: the parent exists and q is not a directory
Writable(dirsx, q) == Dirname(q) \in dirsx /\ q \notin dirsx

----------------------------------------------------------------------------
(* The replacers.  Each returns the value handed back to its caller (ret),  *)
(* the file system it leaves (fs) and whether it ran to its return (ok).    *)

Failed(fsx) == [ret |-> NoneRet, fs |-> fsx, ok |-> FALSE]
Succeeded(fsx, out, c) == [ret |-> PathRet(out), fs |-> WriteFile(fsx, out, c), ok |-> TRUE]

\* SubstAll matching whole values only
SubstWholeValue(v, old, new) == IF v = old THEN new ELSE v

\* str.replace on the whole of a cell / page text
SubstAll(v, old, new) == PyReplace(v, old, new)

\* replace_in_element: the value is replaced only when it is non-empty and
\* contains old_text
SubstIfPresent(v, old, new) ==
    IF v # <<>> /\ Contains(v, old) THEN PyReplace(v, old, new) ELSE v

\* lines 91-93: an attribute value is replaced when it contains old_text
SubstIfContains(v, old, new) ==
    IF Contains(v, old) THEN PyReplace(v, old, new) ELSE v

\* input_path.replace('.ext', '_modified.ext'): every occurrence in the path
OutputPath(path, ext) == PyReplace(path, <<ext>>, <<"_modified", ext>>)

replace_text_in_pdf(fsx, dirsx, path, old, new) ==
    LET out == OutputPath(path, ".pdf")
    IN  IF path \notin DOMAIN fsx \/ fsx[path].kind # "text" THEN Failed(fsx)
        \* Document.save refuses the name the document was opened from
        ELSE IF out = path \/ ~Writable(dirsx, out) THEN Failed(fsx)
        ELSE Succeeded(fsx, out, Text(SubstAll(fsx[path].body, old, new)))

replace_text_in_csv(fsx, dirsx, path, old, new) ==
    LET out == OutputPath(path, ".csv")
    IN  IF path \notin DOMAIN fsx \/ fsx[path].kind # "text" THEN Failed(fsx)
        ELSE IF ~Writable(dirsx, out) THEN Failed(fsx)
        ELSE Succeeded(fsx, out, Text(SubstAll(fsx[path].body, old, new)))

replace_text_in_xml(fsx, dirsx, path, old, new) ==
    LET out == OutputPath(path, ".xml")
    IN  IF path \notin DOMAIN fsx \/ fsx[path].kind # "text" THEN Failed(fsx)
        ELSE IF ~Writable(dirsx, out) THEN Failed(fsx)
        ELSE Succeeded(fsx, out, Text(SubstIfPresent(fsx[path].body, old, new)))

replace_text_in_xpt(fsx, dirsx, path, old, new) ==
    LET out == OutputPath(path, ".xpt")
    IN  IF path \notin DOMAIN fsx \/ fsx[path].kind # "text" THEN Failed(fsx)
        ELSE IF ~Writable(dirsx, out) THEN Failed(fsx)
        ELSE Succeeded(fsx, out, Text(SubstAll(fsx[path].body, old, new)))

\* process_single_file: routing on the lower-cased extension.  attempted
\* records whether a replacer was called; the caller sees ret only.
process_single_file(fsx, dirsx, path, old, new) ==
    LET ext == Lower(SplitExt(path))
        r == CASE ext = ".pdf" -> replace_text_in_pdf(fsx, dirsx, path, old, new)
               [] ext = ".csv" -> replace_text_in_csv(fsx, dirsx, path, old, new)
               [] ext = ".xml" -> replace_text_in_xml(fsx, dirsx, path, old, new)
               [] ext = ".xpt" -> replace_text_in_xpt(fsx, dirsx, path, old, new)
               [] OTHER -> Failed(fsx)
    IN  [ret |-> r.ret, fs |-> r.fs, ok |-> r.ok,
         attempted |-> ext \in {".pdf", ".csv", ".xml", ".xpt"}]

\* the record kept of one call of process_single_file
CallRecord(fsx, path, r) ==
    [path |-> path, ext |-> SplitExt(path), attempted |-> r.attempted,
     ok |-> r.ok, ret |-> r.ret, before |-> fsx[path], after |-> r.fs[path]]

----------------------------------------------------------------------------
(* The uploaded archive: what upload_file saved before it calls the batch  *)

Entry(name, isdir, data) == [name |-> name, isdir |-> isdir, data |-> data]

\* member names an archive is drawn from: files at the top, files whose name
\* only differs in case or in the "_modified" infix, an unsupported file, a
\* file inside a directory whose name contains ".csv", and directory entries
MemberNames ==
    << <<"a", ".csv">>,
       <<"a", "_modified", ".csv">>,
       <<"a", ".CSV">>,
       <<"a", ".pdf">>,
       <<"b", ".txt">>,
       <<"x", ".csv", "/", "a", ".csv">>,
       <<"x", "_modified", ".csv">>,
       <<"x", "_modified", "_modified", ".csv">> >>

MemberIsDir(i) == i \in {7, 8}

OldText == <<"f">>
NewText == <<"q">>

\* contents a member may have
MemberData(i) ==
    IF MemberIsDir(i) THEN {Text(<<>>)}
    ELSE IF i = 5 THEN {Text(<<"f">>)}
    ELSE {Text(<<"f">>), Text(<<"g", "f">>), Corrupt}

AllMemberData == UNION {MemberData(i) : i \in DOMAIN MemberNames}

\* the entries of indices S with data d, in archive order
RECURSIVE EntriesOf(_, _, _)
EntriesOf(S, d, i) ==
    IF i > Len(MemberNames) THEN <<>>
    ELSE IF i \in S
         THEN <<Entry(MemberNames[i], MemberIsDir(i), d[i])>> \o EntriesOf(S, d, i + 1)
         ELSE EntriesOf(S, d, i + 1)

EntryLists ==
    UNION {{EntriesOf(S, d, 1) :
              d \in {e \in [S -> AllMemberData] : \A i \in S : e[i] \in MemberData(i)}} :
           S \in {T \in SUBSET (DOMAIN MemberNames) : Cardinality(T) <= MaxMembers}}

Containers == {Zip(es) : es \in EntryLists} \cup {BadZip(es) : es \in EntryLists}

\* secure_filename(file.filename) of an upload routed to the batch
ZipNames == {<<"a", ".zip">>, <<"a", ".ZIP">>}

\* os.path.join(UPLOAD_FOLDER, f"{uuid}_{filename}")
UploadPath(uuid, filename) == Join(UPLOAD_FOLDER, <<uuid, "_">> \o filename)

\* ScratchPath with one name for every invocation
ScratchPathShared(uuid) == Join(UPLOAD_FOLDER, <<"extracted_", "tmp">>)

\* os.path.join(UPLOAD_FOLDER, f"extracted_{uuid}")
ScratchPath(uuid) == Join(UPLOAD_FOLDER, <<"extracted_", uuid>>)

supported_extensions == {".pdf", ".csv", ".xml", ".xpt"}

----------------------------------------------------------------------------
(* extract_zip_and_process *)

\* no value-level or table-level operation is under way
NoResult == [site |-> "none", v |-> <<>>]
NoTable == [header |-> <<>>, rows |-> <<>>]
NoOutput == [format |-> "none", header |-> <<>>, rows |-> <<>>]

NoTree == [tag |-> <<>>, text |-> <<>>, tail |-> <<>>, attrib |-> <<>>, children |-> <<>>]
\* an uploaded file: its (secure) name and what its bytes are
Upload(filename, content) == [filename |-> filename, content |-> content]
NoFile == Upload(<<>>, Text(<<>>))

\* a response: its status, the file it sends, or the error message and the
\* uploaded file the message names
Response(status, path, error, file) ==
    [status |-> status, path |-> path, error |-> error, file |-> file]
NoResponse == Response(0, <<>>, "", NoFile)

\* no markup, round-trip or paginated-document operation is under way
DocIdle ==
    /\ tree = NoTree
    /\ outTree = NoTree
    /\ pass1 = NoResult
    /\ pass2 = NoResult
    /\ page = <<>>
    /\ page0 = <<>>
    /\ pdfpc = "idle"
    /\ text_instances = <<>>
    /\ original_text_info = <<>>
    /\ inserted = <<>>

\* no request is being served
WebIdle ==
    /\ request = <<>>
    /\ upc = "idle"
    /\ temp_files = <<>>
    /\ sent_files = <<>>
    /\ response = NoResponse
    /\ cleaner = "none"
    /\ reader = "none"
    /\ procs = <<>>
    /\ touched = <<>>

PureIdle ==
    /\ value = <<>>
    /\ result = NoResult
    /\ table = NoTable
    /\ output = NoOutput

Init ==
    /\ PureIdle
    /\ DocIdle
    /\ WebIdle
    /\ old_text = OldText
    /\ new_text = NewText
    /\ \E n \in ZipNames, c \in Containers :
          /\ zip_path = UploadPath("u0", n)
          /\ fs = [p \in {UploadPath("u0", n)} |-> c]
    /\ fs0 = fs
    /\ dirs = {UPLOAD_FOLDER}
    /\ extract_folder = <<>>
    /\ pc = "start"
    /\ pendingDirs = {}
    /\ curFiles = {}
    /\ processed_files = <<>>
    /\ unpacked = {}
    /\ calls = <<>>
    /\ outcome = "running"
    /\ ret = NoneRet

\* the directories between folder and q, folder excluded
RECURSIVE Parents(_, _)
Parents(q, folder) ==
    LET d == Dirname(q)
    IN  IF Len(d) <= Len(folder) THEN {} ELSE {d} \cup Parents(d, folder)

\* ZipFile.extractall of the entries es into folder
ExtractFs(fsx, folder, es) ==
    LET files == {i \in DOMAIN es : ~es[i].isdir}
        new == {Join(folder, es[i].name) : i \in files}
        last(q) == CHOOSE i \in files :
                      /\ Join(folder, es[i].name) = q
                      /\ \A j \in files : Join(folder, es[j].name) = q => j <= i
    IN  [q \in DOMAIN fsx \cup new |-> IF q \in new THEN es[last(q)].data ELSE fsx[q]]

ExtractDirs(dirsx, folder, es) ==
    dirsx \cup {Join(folder, es[i].name) : i \in {j \in DOMAIN es : es[j].isdir}}
          \cup UNION {Parents(Join(folder, es[i].name), folder) : i \in DOMAIN es}

\* lines 141-142: the scratch directory is created
MakeScratch ==
    /\ pc = "start"
    /\ UNCHANGED <<pureVars, docVars, webVars>>
    /\ extract_folder' = ScratchPath("u1")
    /\ dirs' = dirs \cup {ScratchPath("u1")}
    /\ pc' = "unpack"
    /\ UNCHANGED <<fs, fs0, old_text, new_text, zip_path, pendingDirs, curFiles,
                   processed_files, unpacked, calls, outcome, ret>>

\* lines 148-149: the container unpacks
UnpackOk ==
    /\ pc = "unpack"
    /\ UNCHANGED <<pureVars, docVars, webVars>>
    /\ fs[zip_path].kind = "zip"
    /\ LET es == fs[zip_path].entries
       IN  /\ fs' = ExtractFs(fs, extract_folder, es)
           /\ dirs' = ExtractDirs(dirs, extract_folder, es)
           /\ unpacked' = {Join(extract_folder, es[i].name) :
                             i \in {j \in DOMAIN es : ~es[j].isdir}}
    /\ pendingDirs' = {extract_folder}
    /\ pc' = "walk"
    /\ UNCHANGED <<fs0, old_text, new_text, zip_path, extract_folder, curFiles,
                   processed_files, calls, outcome, ret>>

\* UnpackFail with the error swallowed: the walk goes on over what was written
UnpackFailSwallowed ==
    /\ pc = "unpack"
    /\ UNCHANGED <<pureVars, docVars, webVars>>
    /\ fs[zip_path].kind # "zip"
    /\ LET es == fs[zip_path].entries
       IN  /\ fs' = ExtractFs(fs, extract_folder, es)
           /\ dirs' = ExtractDirs(dirs, extract_folder, es)
           /\ unpacked' = {Join(extract_folder, es[i].name) :
                             i \in {j \in DOMAIN es : ~es[j].isdir}}
    /\ pendingDirs' = {extract_folder}
    /\ pc' = "walk"
    /\ UNCHANGED <<fs0, old_text, new_text, zip_path, extract_folder, curFiles,
                   processed_files, calls, outcome, ret>>

\* lines 148-149: ZipFile() or extractall raises, after the first k entries
\* were written (k = 0 when the file cannot be opened as an archive)
UnpackFail ==
    /\ pc = "unpack"
    /\ UNCHANGED <<pureVars, docVars, webVars>>
    /\ fs[zip_path].kind # "zip"
    /\ \E k \in 0 .. (IF Len(fs[zip_path].entries) = 0 THEN 0
                      ELSE Len(fs[zip_path].entries) - 1) :
          LET es == SubSeq(fs[zip_path].entries, 1, k)
          IN  /\ fs' = ExtractFs(fs, extract_folder, es)
              /\ dirs' = ExtractDirs(dirs, extract_folder, es)
              /\ unpacked' = {Join(extract_folder, es[i].name) :
                                i \in {j \in DOMAIN es : ~es[j].isdir}}
    /\ outcome' = "raising"
    /\ pc' = "finally"
    /\ UNCHANGED <<fs0, old_text, new_text, zip_path, extract_folder, pendingDirs,
                   curFiles, processed_files, calls, ret>>

\* line 152: os.walk lists the next directory: its files as they are now,
\* and its subdirectories, which are listed when the walk reaches them
WalkScan ==
    /\ pc = "walk"
    /\ UNCHANGED <<pureVars, docVars, webVars>>
    /\ curFiles = {}
    /\ \E d \in pendingDirs :
          /\ curFiles' = {p \in DOMAIN fs : Dirname(p) = d}
          /\ pendingDirs' = (pendingDirs \ {d}) \cup {q \in dirs : Dirname(q) = d}
    /\ UNCHANGED <<fs, dirs, fs0, old_text, new_text, zip_path, extract_folder, pc,
                   processed_files, unpacked, calls, outcome, ret>>

\* lines 153-157: a listed file whose extension is not supported is passed over
WalkSkip ==
    /\ pc = "walk"
    /\ UNCHANGED <<pureVars, docVars, webVars>>
    /\ \E f \in curFiles :
          /\ Lower(SplitExt(Basename(f))) \notin supported_extensions
          /\ curFiles' = curFiles \ {f}
    /\ UNCHANGED <<fs, dirs, fs0, old_text, new_text, zip_path, extract_folder, pc,
                   pendingDirs, processed_files, unpacked, calls, outcome, ret>>

\* WalkProcess without the per-member isolation: a member that yields no
\* output ends the batch with an error
WalkProcessAbort ==
    /\ pc = "walk"
    /\ UNCHANGED <<pureVars, docVars, webVars>>
    /\ \E f \in curFiles :
          /\ Lower(SplitExt(Basename(f))) \in supported_extensions
          /\ LET r == process_single_file(fs, dirs, f, old_text, new_text)
             IN  /\ fs' = r.fs
                 /\ processed_files' = IF r.ret.isNone THEN processed_files
                                       ELSE Append(processed_files, r.ret.path)
                 /\ calls' = Append(calls, CallRecord(fs, f, r))
                 /\ pc' = IF r.ret.isNone THEN "finally" ELSE pc
                 /\ outcome' = IF r.ret.isNone THEN "raising" ELSE outcome
          /\ curFiles' = curFiles \ {f}
    /\ UNCHANGED <<dirs, fs0, old_text, new_text, zip_path, extract_folder,
                   pendingDirs, unpacked, ret>>

\* lines 153-164: a listed file with a supported extension is dispatched and
\* its output, if any, is appended
WalkProcess ==
    /\ pc = "walk"
    /\ UNCHANGED <<pureVars, docVars, webVars>>
    /\ \E f \in curFiles :
          /\ Lower(SplitExt(Basename(f))) \in supported_extensions
          /\ LET r == process_single_file(fs, dirs, f, old_text, new_text)
             IN  /\ fs' = r.fs
                 /\ processed_files' = IF r.ret.isNone THEN processed_files
                                       ELSE Append(processed_files, r.ret.path)
                 /\ calls' = Append(calls, CallRecord(fs, f, r))
          /\ curFiles' = curFiles \ {f}
    /\ UNCHANGED <<dirs, fs0, old_text, new_text, zip_path, extract_folder, pc,
                   pendingDirs, unpacked, outcome, ret>>

\* OutputZip placed inside the scratch directory
OutputZipInScratch(zp) == Join(extract_folder, Basename(zp))

\* zip_path.replace('.zip', '_modified.zip')
OutputZip(zp) == PyReplace(zp, <<".zip">>, <<"_modified", ".zip">>)

\* the archive written at lines 169-171: one entry per processed file, named
\* by its base name
Repacked(fsx, files) ==
    Zip([i \in DOMAIN files |-> Entry(Basename(files[i]), FALSE, fsx[files[i]])])

\* lines 167-173: the walk is over and at least one output was produced
Repack ==
    /\ pc = "walk"
    /\ UNCHANGED <<pureVars, docVars, webVars>>
    /\ curFiles = {}
    /\ pendingDirs = {}
    /\ processed_files # <<>>
    /\ IF /\ Writable(dirs, OutputZip(zip_path))
          /\ \A i \in DOMAIN processed_files : processed_files[i] \in DOMAIN fs
       THEN /\ fs' = WriteFile(fs, OutputZip(zip_path), Repacked(fs, processed_files))
            /\ ret' = PathRet(OutputZip(zip_path))
            /\ outcome' = "returning"
       ELSE /\ outcome' = "raising"
            /\ UNCHANGED <<fs, ret>>
    /\ pc' = "finally"
    /\ UNCHANGED <<dirs, fs0, old_text, new_text, zip_path, extract_folder,
                   pendingDirs, curFiles, processed_files, unpacked, calls>>

\* ReturnNone turned into an error
ReturnNoneRaises ==
    /\ pc = "walk"
    /\ UNCHANGED <<pureVars, docVars, webVars>>
    /\ curFiles = {}
    /\ pendingDirs = {}
    /\ processed_files = <<>>
    /\ outcome' = "raising"
    /\ pc' = "finally"
    /\ UNCHANGED <<fs, dirs, fs0, old_text, new_text, zip_path, extract_folder,
                   pendingDirs, curFiles, processed_files, unpacked, calls, ret>>

\* lines 174-175: the walk is over and nothing was produced
ReturnNone ==
    /\ pc = "walk"
    /\ UNCHANGED <<pureVars, docVars, webVars>>
    /\ curFiles = {}
    /\ pendingDirs = {}
    /\ processed_files = <<>>
    /\ ret' = NoneRet
    /\ outcome' = "returning"
    /\ pc' = "finally"
    /\ UNCHANGED <<fs, dirs, fs0, old_text, new_text, zip_path, extract_folder,
                   pendingDirs, curFiles, processed_files, unpacked, calls>>

\* shutil.rmtree(folder, ignore_errors=True)
RmTreeFs(fsx, folder) ==
    [p \in {q \in DOMAIN fsx : ~Under(q, folder)} |-> fsx[p]]

RmTreeDirs(dirsx, folder) ==
    {d \in dirsx : d # folder /\ ~Under(d, folder)}

\* Cleanup placed after the repacking instead of in a finally block: it is
\* skipped when an error is on its way out
CleanupNotFinal ==
    /\ pc = "finally"
    /\ UNCHANGED <<pureVars, docVars, webVars>>
    /\ IF extract_folder \in dirs /\ outcome # "raising"
       THEN /\ fs' = RmTreeFs(fs, extract_folder)
            /\ dirs' = RmTreeDirs(dirs, extract_folder)
       ELSE UNCHANGED <<fs, dirs>>
    /\ outcome' = IF outcome = "raising" THEN "raised" ELSE "returned"
    /\ pc' = "done"
    /\ UNCHANGED <<fs0, old_text, new_text, zip_path, extract_folder, pendingDirs,
                   curFiles, processed_files, unpacked, calls, ret>>

\* lines 177-180: the finally block, then the return or the raise
Cleanup ==
    /\ pc = "finally"
    /\ UNCHANGED <<pureVars, docVars, webVars>>
    /\ IF extract_folder \in dirs
       THEN /\ fs' = RmTreeFs(fs, extract_folder)
            /\ dirs' = RmTreeDirs(dirs, extract_folder)
       ELSE UNCHANGED <<fs, dirs>>
    /\ outcome' = IF outcome = "raising" THEN "raised" ELSE "returned"
    /\ pc' = "done"
    /\ UNCHANGED <<fs0, old_text, new_text, zip_path, extract_folder, pendingDirs,
                   curFiles, processed_files, unpacked, calls, ret>>

Next ==
    \/ MakeScratch
    \/ UnpackOk
    \/ UnpackFail
    \/ WalkScan
    \/ WalkSkip
    \/ WalkProcess
    \/ Repack
    \/ ReturnNone
    \/ Cleanup

Spec == Init /\ [][Next]_vars

----------------------------------------------------------------------------
(* Properties of extract_zip_and_process *)

\* the container given to the invocation can be unpacked
Readable == fs0[zip_path].kind = "zip"

Supported(p) == Lower(SplitExt(Basename(p))) \in supported_extensions

OkCalls == {i \in DOMAIN calls : calls[i].ok}

\* C1: when the invocation has ended, on any exit path, the scratch
\* directory and everything below it are gone
ScratchRemoved ==
    pc = "done" =>
        /\ extract_folder \notin dirs
        /\ \A p \in DOMAIN fs : ~Under(p, extract_folder)
        /\ \A d \in dirs : ~Under(d, extract_folder)

\* the invocation ended by raising after extractall had written files
W_ScratchRemoved ==
    /\ pc = "done"
    /\ outcome = "raised"
    /\ unpacked # {}

\* C2: a container that cannot be unpacked makes the batch raise (it does not
\* return), no file is handed to the dispatcher and no file outside the
\* scratch directory is created or changed
ContainerFailureRaises ==
    ~Readable =>
        /\ calls = <<>>
        /\ pc = "done" => (outcome = "raised" /\ fs = fs0)

\* an unreadable container holding a supported member was run to its end
W_ContainerFailureRaises ==
    /\ pc = "done"
    /\ ~Readable
    /\ \E i \in DOMAIN fs0[zip_path].entries :
          /\ ~fs0[zip_path].entries[i].isdir
          /\ Supported(fs0[zip_path].entries[i].name)

\* C3: a member that fails does not end the batch: only an unreadable
\* container raises, and once the walk of a readable container is over every
\* supported member that was unpacked has been handed to the dispatcher
MemberFailureIsolated ==
    /\ outcome \in {"raising", "raised"} => ~Readable
    /\ (pc \in {"finally", "done"} /\ Readable) =>
           \A p \in unpacked :
               Supported(p) => \E i \in DOMAIN calls : calls[i].path = p

\* a member failed, a later member was still dispatched, the batch returned
W_MemberFailureIsolated ==
    /\ pc = "done"
    /\ outcome = "returned"
    /\ \E i, j \in DOMAIN calls : i < j /\ ~calls[i].ok /\ calls[j].ok

\* C4: the returned archive has entries only for supported members of the
\* input whose processing succeeded, hence at most as many entries as the
\* input has supported members
OutputOnlySupportedMembers ==
    (pc = "done" /\ ~ret.isNone) =>
        /\ Len(fs[ret.path].entries) <= Cardinality({p \in unpacked : Supported(p)})
        /\ \A i \in DOMAIN fs[ret.path].entries :
              \E k \in OkCalls :
                  /\ calls[k].path \in unpacked
                  /\ Basename(calls[k].ret.path) = fs[ret.path].entries[i].name

\* C5: a readable container makes the batch return: "none" exactly when no
\* member produced output, otherwise the path of an archive written by this
\* invocation with one entry per produced output
ReturnMatchesOutputs ==
    (pc = "done" /\ Readable) =>
        /\ outcome = "returned"
        /\ ret.isNone <=> OkCalls = {}
        /\ ~ret.isNone =>
              /\ ret.path \in DOMAIN fs
              /\ fs[ret.path].kind = "zip"
              /\ Len(fs[ret.path].entries) = Cardinality(OkCalls)
              /\ \A i \in DOMAIN fs[ret.path].entries :
                    fs[ret.path].entries[i].name = Basename(processed_files[i])

\* members were dispatched, none produced output, and "none" was returned
W_ReturnMatchesOutputs ==
    /\ pc = "done"
    /\ outcome = "returned"
    /\ ret.isNone
    /\ calls # <<>>

\* C8: the archive path the batch returns is outside the scratch directory
\* and the archive is on disk after the cleanup
ReturnedArchiveSurvives ==
    (pc = "done" /\ ~ret.isNone) =>
        /\ ~Under(ret.path, extract_folder)
        /\ ret.path \in DOMAIN fs
        /\ fs[ret.path].kind = "zip"
        /\ fs[ret.path].entries # <<>>

\* an archive was returned after a scratch directory holding outputs was removed
W_ReturnedArchiveSurvives ==
    /\ pc = "done"
    /\ ~ret.isNone
    /\ \E i \in DOMAIN processed_files : Under(processed_files[i], extract_folder)

----------------------------------------------------------------------------
(* process_single_file called directly on files that are on disk *)

\* files the dispatcher is called on: uploads as upload_file saves them, and
\* an unpacked member below a directory whose name contains ".csv"
DispatchPaths ==
    { UploadPath("u0", <<"a", ".csv">>),
      UploadPath("u0", <<"a", ".CSV">>),
      UploadPath("u0", <<"a", ".xml">>),
      UploadPath("u0", <<"a", ".xpt">>),
      UploadPath("u0", <<"a", ".pdf">>),
      UploadPath("u0", <<"a", ".PDF">>),
      UploadPath("u0", <<"b", ".txt">>),
      Join(ScratchPath("u1"), <<"x", ".csv", "/", "a", ".csv">>) }

DispatchData == {Text(<<"f">>), Text(<<"g", "f">>), Corrupt}

DispatchDirs ==
    {UPLOAD_FOLDER, ScratchPath("u1"), Join(ScratchPath("u1"), <<"x", ".csv">>)}

InitDispatch ==
    /\ PureIdle
    /\ DocIdle
    /\ WebIdle
    /\ old_text = OldText
    /\ new_text \in {NewText, <<>>}
    /\ \E S \in {T \in SUBSET DispatchPaths : Cardinality(T) <= MaxFiles} :
          fs \in [S -> DispatchData]
    /\ fs0 = fs
    /\ dirs \in {DispatchDirs,
                 DispatchDirs \cup {Join(ScratchPath("u1"), <<"x", "_modified", ".csv">>)}}
    /\ zip_path = <<>>
    /\ extract_folder = <<>>
    /\ pc = "dispatch"
    /\ pendingDirs = {}
    /\ curFiles = {}
    /\ processed_files = <<>>
    /\ unpacked = {}
    /\ calls = <<>>
    /\ outcome = "running"
    /\ ret = NoneRet

\* one call of process_single_file (lines 124-137) on a file on disk
Dispatch ==
    /\ pc = "dispatch"
    /\ UNCHANGED <<pureVars, docVars, webVars>>
    /\ Len(calls) < MaxCalls
    /\ \E f \in DOMAIN fs :
          LET r == process_single_file(fs, dirs, f, old_text, new_text)
          IN  /\ fs' = r.fs
              /\ ret' = r.ret
              /\ calls' = Append(calls, CallRecord(fs, f, r))
    /\ UNCHANGED <<dirs, fs0, old_text, new_text, zip_path, extract_folder, pc,
                   pendingDirs, curFiles, processed_files, unpacked, outcome>>

NextDispatch == Dispatch

SpecDispatch == InitDispatch /\ [][NextDispatch]_vars

\* C6: what the caller gets for a file with an unrecognized extension differs
\* from what it gets for a recognized file whose replacer failed
UnsupportedDistinctFromFailed ==
    \A i, j \in DOMAIN calls :
        (~calls[i].attempted /\ calls[j].attempted /\ ~calls[j].ok)
            => calls[i].ret # calls[j].ret

\* C7: a successful replacement returns a path other than the input path and
\* the input file has the content it had before the call
OriginalNeverMutated ==
    \A i \in DOMAIN calls :
        calls[i].ok =>
            /\ calls[i].ret.path # calls[i].path
            /\ calls[i].after = calls[i].before

----------------------------------------------------------------------------
(* The substitution applied to one value *)

\* characters of the values: two letters that differ in case only, and another
Alphabet == {"f", "F", "o"}

Strings(n) == UNION {[1 .. k -> Alphabet] : k \in 0 .. n}

\* no file-level operation is under way
FileIdle ==
    /\ fs = <<>>
    /\ fs0 = <<>>
    /\ dirs = {}
    /\ zip_path = <<>>
    /\ extract_folder = <<>>
    /\ pc = "idle"
    /\ pendingDirs = {}
    /\ curFiles = {}
    /\ processed_files = <<>>
    /\ unpacked = {}
    /\ calls = <<>>
    /\ outcome = "running"
    /\ ret = NoneRet

InitSubst ==
    /\ FileIdle
    /\ DocIdle
    /\ WebIdle
    /\ value \in Strings(MaxLen)
    /\ old_text \in Strings(MaxOld) \ {<<>>}
    /\ new_text \in Strings(MaxNew)
    /\ result = NoResult
    /\ table = NoTable
    /\ output = NoOutput

\* lines 71 and 114: a cell of a column, after fillna('') and astype(str)
SubstCell ==
    /\ result = NoResult
    /\ result' = [site |-> "cell", v |-> SubstAll(value, old_text, new_text)]
    /\ UNCHANGED <<fileVars, docVars, webVars, old_text, new_text, value, table, output>>

\* lines 87-88: the text of an element
SubstElemText ==
    /\ result = NoResult
    /\ result' = [site |-> "text", v |-> SubstIfPresent(value, old_text, new_text)]
    /\ UNCHANGED <<fileVars, docVars, webVars, old_text, new_text, value, table, output>>

\* lines 89-90: the tail of an element
SubstElemTail ==
    /\ result = NoResult
    /\ result' = [site |-> "tail", v |-> SubstIfPresent(value, old_text, new_text)]
    /\ UNCHANGED <<fileVars, docVars, webVars, old_text, new_text, value, table, output>>

\* lines 91-93: the value of an attribute
SubstAttribute ==
    /\ result = NoResult
    /\ result' = [site |-> "attribute", v |-> SubstIfContains(value, old_text, new_text)]
    /\ UNCHANGED <<fileVars, docVars, webVars, old_text, new_text, value, table, output>>

NextSubst ==
    \/ SubstCell
    \/ SubstElemText
    \/ SubstElemTail
    \/ SubstAttribute

SpecSubst == InitSubst /\ [][NextSubst]_vars

\* the positions at which old occurs in s
Occurrences(s, old) ==
    {i \in 1 .. Len(s) - Len(old) + 1 : SubSeq(s, i, i + Len(old) - 1) = old}

\* the occurrences kept when they are taken left to right without overlap
Taken(s, old) ==
    LET taken[i \in 0 .. Len(s)] ==
            IF i = 0 THEN {}
            ELSE IF /\ i \in Occurrences(s, old)
                    /\ \A j \in taken[i - 1] : j + Len(old) <= i
                 THEN taken[i - 1] \cup {i}
                 ELSE taken[i - 1]
    IN  taken[Len(s)]

\* the reference: each taken occurrence becomes new, every character outside
\* the taken occurrences stays
Reference(s, old, new) ==
    LET T == Taken(s, old)
        piece(i) == IF i \in T THEN new
                    ELSE IF \E j \in T : j < i /\ i < j + Len(old) THEN <<>>
                    ELSE <<s[i]>>
        upto[i \in 0 .. Len(s)] == IF i = 0 THEN <<>> ELSE upto[i - 1] \o piece(i)
    IN  upto[Len(s)]

\* C9: at every site the substituted value is the reference replacement of
\* all non-overlapping occurrences, left to right and case-sensitive; a value
\* in which old_text does not occur is returned as it is
SubstitutionIsReference ==
    result.site # "none" =>
        /\ result.v = Reference(value, old_text, new_text)
        /\ Occurrences(value, old_text) = {} => result.v = value

\* a cell of which old_text is a proper part was substituted
W_SubstitutionIsReference ==
    /\ result.site = "cell"
    /\ Len(value) > Len(old_text)
    /\ Occurrences(value, old_text) # {}
    /\ result.v # value

----------------------------------------------------------------------------
(* The tabular replacers.  A file is a header and rows of raw fields; a     *)
(* data frame is the column names and, per column, the cells of the rows.  *)

\* a cell of a data frame: missing (NaN), or a value with its string form
Cell(s) == [na |-> FALSE, s |-> s]
NaN == [na |-> TRUE, s |-> <<>>]

\* pd.read_csv(path, dtype=str): every field is a string, an empty field is
\* missing
read_csv(file) ==
    [columns |-> file.header,
     data |-> [c \in DOMAIN file.header |->
                 [r \in DOMAIN file.rows |->
                    IF file.rows[r][c] = <<>> THEN NaN ELSE Cell(file.rows[r][c])]]]

\* pyreadstat.read_xport(path): the variables in file order, empty numeric
\* fields are missing
read_xport(file) ==
    [columns |-> file.header,
     data |-> [c \in DOMAIN file.header |->
                 [r \in DOMAIN file.rows |->
                    IF file.rows[r][c] = <<>> THEN NaN ELSE Cell(file.rows[r][c])]]]

\* df.fillna('')
fillna(df) ==
    [columns |-> df.columns,
     data |-> [c \in DOMAIN df.data |->
                 [r \in DOMAIN df.data[c] |->
                    IF df.data[c][r].na THEN Cell(<<>>) ELSE df.data[c][r]]]]

\* astype(str) of one cell
astype_str(cell) == IF cell.na THEN <<"n", "a", "n">> ELSE cell.s

\* the loop of lines 70-71 and 113-114: each column is assigned its cells
\* with old replaced by new; the column names are left as they are
ReplaceColumns(df, old, new) ==
    [columns |-> df.columns,
     data |-> [c \in DOMAIN df.data |->
                 [r \in DOMAIN df.data[c] |->
                    Cell(SubstAll(astype_str(df.data[c][r]), old, new))]]]

\* the number of rows of a data frame
NRows(df) == IF df.columns = <<>> THEN 0 ELSE Len(df.data[1])

\* to_csv written with the index as a first, unnamed column
to_csv_with_index(df) ==
    [format |-> "csv",
     header |-> <<<<>>>> \o df.columns,
     rows |-> [r \in 1 .. NRows(df) |->
                 <<<<"i">>>> \o [c \in DOMAIN df.columns |-> astype_str(df.data[c][r])]]]

\* df.to_csv(path, index=False): the header, then one line per row
to_csv(df) ==
    [format |-> "csv",
     header |-> df.columns,
     rows |-> [r \in 1 .. NRows(df) |->
                 [c \in DOMAIN df.columns |-> astype_str(df.data[c][r])]]]

\* pyreadstat.write_xport(df, path, ...): one variable per column
write_xport(df) ==
    [format |-> "xpt",
     header |-> df.columns,
     rows |-> [r \in 1 .. NRows(df) |->
                 [c \in DOMAIN df.columns |-> astype_str(df.data[c][r])]]]

\* column names and fields of the tables; one name contains OldText
ColumnNames == {<<"f">>, <<"g">>, <<"h", "f">>}
Fields == {<<>>, <<"g", "f">>}

\* headers: one to MaxCols distinct column names
Headers ==
    UNION {{h \in [1 .. n -> ColumnNames] :
              \A i, j \in 1 .. n : i # j => h[i] # h[j]} : n \in 1 .. MaxCols}

Tables ==
    UNION {{[header |-> h, rows |-> rs] :
              rs \in UNION {[1 .. m -> [DOMAIN h -> Fields]] : m \in 0 .. MaxRows}} :
           h \in Headers}

InitTable ==
    /\ FileIdle
    /\ DocIdle
    /\ WebIdle
    /\ value = <<>>
    /\ result = NoResult
    /\ old_text = OldText
    /\ new_text \in {NewText, <<>>}
    /\ table \in Tables
    /\ output = NoOutput

\* replace_text_in_csv, lines 66-74, on a table that parses
ReplaceCsv ==
    /\ output = NoOutput
    /\ output' = to_csv(ReplaceColumns(fillna(read_csv(table)), old_text, new_text))
    /\ UNCHANGED <<fileVars, docVars, webVars, old_text, new_text, value, result, table>>

\* replace_text_in_xpt, lines 109-118, on a table that parses
ReplaceXpt ==
    /\ output = NoOutput
    /\ output' = write_xport(ReplaceColumns(fillna(read_xport(table)), old_text, new_text))
    /\ UNCHANGED <<fileVars, docVars, webVars, old_text, new_text, value, result, table>>

NextTable ==
    \/ ReplaceCsv
    \/ ReplaceXpt

SpecTable == InitTable /\ [][NextTable]_vars

----------------------------------------------------------------------------
(* The markup replacer.  An element has a tag, a text, a tail, attributes   *)
(* in document order and children in document order; an absent text or    *)
(* tail is the empty string.                                               *)

Attr(k, v) == [k |-> k, v |-> v]
Elem(tag, text, tail, attrib, children) ==
    [tag |-> tag, text |-> text, tail |-> tail, attrib |-> attrib, children |-> children]

\* replace_in_element that also rewrites tags and attribute names
RECURSIVE replace_in_names_too(_, _, _)
replace_in_names_too(elem, old, new) ==
    Elem(SubstIfContains(elem.tag, old, new),
         SubstIfPresent(elem.text, old, new),
         SubstIfPresent(elem.tail, old, new),
         [i \in DOMAIN elem.attrib |->
             Attr(SubstIfContains(elem.attrib[i].k, old, new),
                  SubstIfContains(elem.attrib[i].v, old, new))],
         [i \in DOMAIN elem.children |->
             replace_in_names_too(elem.children[i], old, new)])

\* replace_in_element, lines 86-95: text, tail and attribute values of the
\* element, then the same for each child
RECURSIVE replace_in_element(_, _, _)
replace_in_element(elem, old, new) ==
    Elem(elem.tag,
         SubstIfPresent(elem.text, old, new),
         SubstIfPresent(elem.tail, old, new),
         [i \in DOMAIN elem.attrib |->
             Attr(elem.attrib[i].k, SubstIfContains(elem.attrib[i].v, old, new))],
         [i \in DOMAIN elem.children |->
             replace_in_element(elem.children[i], old, new)])

\* elements without children: tags, attribute names, texts, tails and
\* attribute values with and without OldText
Leaves ==
    { Elem(<<"f">>, <<"f">>, <<>>, <<Attr(<<"f">>, <<"f">>)>>, <<>>),
      Elem(<<"g">>, <<>>, <<"f">>, <<>>, <<>>),
      Elem(<<"g">>, <<"g", "f">>, <<>>,
           <<Attr(<<"g">>, <<>>), Attr(<<"h", "f">>, <<"g", "f">>)>>, <<>>),
      Elem(<<"f">>, <<>>, <<>>, <<>>, <<>>) }

\* elements with one child
Nested ==
    { Elem(e.tag, e.text, e.tail, e.attrib, <<c>>) :
        e \in Leaves,
        c \in { Elem(<<"f">>, <<"f">>, <<"f">>, <<>>, <<>>),
                Elem(<<"g">>, <<>>, <<>>, <<Attr(<<"f">>, <<"f">>)>>, <<>>) } }

\* documents: a root without tail and up to MaxChildren children
Documents ==
    { Elem(e.tag, e.text, <<>>, e.attrib, cs) :
        e \in Leaves,
        cs \in UNION {[1 .. n -> Leaves \cup Nested] : n \in 0 .. MaxChildren} }

InitXml ==
    /\ FileIdle
    /\ WebIdle
    /\ value = <<>>
    /\ result = NoResult
    /\ table = NoTable
    /\ output = NoOutput
    /\ old_text = OldText
    /\ new_text \in {NewText, <<>>}
    /\ tree \in Documents
    /\ outTree = NoTree
    /\ pass1 = NoResult
    /\ pass2 = NoResult
    /\ page = <<>>
    /\ page0 = <<>>
    /\ pdfpc = "idle"
    /\ text_instances = <<>>
    /\ original_text_info = <<>>
    /\ inserted = <<>>

\* replace_text_in_xml, lines 83-100, on a document that parses: the tree is
\* rewritten from the root and written out
ReplaceXml ==
    /\ outTree = NoTree
    /\ outTree' = replace_in_element(tree, old_text, new_text)
    /\ UNCHANGED <<fileVars, webVars, pureVars, old_text, new_text, tree, pass1, pass2,
                   page, page0, pdfpc, text_instances, original_text_info, inserted>>

NextXml == ReplaceXml

SpecXml == InitXml /\ [][NextXml]_vars

\* the tree without its strings: tags, attribute names and children
RECURSIVE Shape(_)
Shape(t) ==
    [tag |-> t.tag,
     names |-> [i \in DOMAIN t.attrib |-> t.attrib[i].k],
     children |-> [i \in DOMAIN t.children |-> Shape(t.children[i])]]

\* the number of elements of a tree
RECURSIVE Count(_)
Count(t) ==
    LET RECURSIVE upto(_)
        upto(i) == IF i = 0 THEN 0 ELSE upto(i - 1) + Count(t.children[i])
    IN  1 + upto(Len(t.children))

\* C11: the tree written has the elements of the tree read, in number,
\* nesting and order, with the same tags and the same attribute names in
\* the same order
TreeShapePreserved ==
    outTree # NoTree =>
        /\ Count(outTree) = Count(tree)
        /\ Shape(outTree) = Shape(tree)

\* a document with a nested element was rewritten, a tag and an attribute
\* name of which contain old_text, and some string in it changed
W_TreeShapePreserved ==
    /\ outTree # NoTree
    /\ outTree # tree
    /\ Count(tree) >= 3
    /\ Contains(tree.tag, old_text)
    /\ \E i \in DOMAIN tree.children :
          /\ tree.children[i].children # <<>>
          /\ \E a \in DOMAIN tree.children[i].attrib :
                Contains(tree.children[i].attrib[a].k, old_text)

----------------------------------------------------------------------------
(* Two passes over one value: old_text by new_text, then new_text by        *)
(* old_text                                                                *)

InitRoundTrip ==
    /\ FileIdle
    /\ WebIdle
    /\ value \in Strings(MaxLen)
    /\ old_text \in Strings(MaxOld) \ {<<>>}
    /\ new_text \in Strings(MaxNew)
    /\ result = NoResult
    /\ table = NoTable
    /\ output = NoOutput
    /\ DocIdle

\* the substitution made at a site
SubstAt(site, v, old, new) ==
    CASE site = "cell" -> SubstAll(v, old, new)
      [] site = "text" -> SubstIfPresent(v, old, new)
      [] site = "attribute" -> SubstIfContains(v, old, new)

\* lines 71 and 114: first pass over a cell
FirstPassCell ==
    /\ pass1 = NoResult
    /\ pass1' = [site |-> "cell", v |-> SubstAt("cell", value, old_text, new_text)]
    /\ UNCHANGED <<fileVars, webVars, pureVars, old_text, new_text, tree, outTree, pass2,
                   page, page0, pdfpc, text_instances, original_text_info, inserted>>

\* lines 87-90: first pass over the text or the tail of an element
FirstPassText ==
    /\ pass1 = NoResult
    /\ pass1' = [site |-> "text", v |-> SubstAt("text", value, old_text, new_text)]
    /\ UNCHANGED <<fileVars, webVars, pureVars, old_text, new_text, tree, outTree, pass2,
                   page, page0, pdfpc, text_instances, original_text_info, inserted>>

\* lines 91-93: first pass over an attribute value
FirstPassAttribute ==
    /\ pass1 = NoResult
    /\ pass1' = [site |-> "attribute",
                 v |-> SubstAt("attribute", value, old_text, new_text)]
    /\ UNCHANGED <<fileVars, webVars, pureVars, old_text, new_text, tree, outTree, pass2,
                   page, page0, pdfpc, text_instances, original_text_info, inserted>>

\* the second pass, with the two texts exchanged; upload_file refuses an
\* empty text to find (line 194)
SecondPass ==
    /\ pass1 # NoResult
    /\ pass2 = NoResult
    /\ new_text # <<>>
    /\ pass2' = [site |-> pass1.site,
                 v |-> SubstAt(pass1.site, pass1.v, new_text, old_text)]
    /\ UNCHANGED <<fileVars, webVars, pureVars, old_text, new_text, tree, outTree, pass1,
                   page, page0, pdfpc, text_instances, original_text_info, inserted>>

NextRoundTrip ==
    \/ FirstPassCell
    \/ FirstPassText
    \/ FirstPassAttribute
    \/ SecondPass

SpecRoundTrip == InitRoundTrip /\ [][NextRoundTrip]_vars

Inserted(s, old, new) ==
    LET T == Taken(s, old)
    IN  {i + Cardinality({j \in T : j < i}) * (Len(new) - Len(old)) : i \in T}

\* new occurs in the replaced value exactly where it was inserted
CleanInsertion(s, old, new) ==
    Occurrences(Reference(s, old, new), new) = Inserted(s, old, new)

----------------------------------------------------------------------------
(* The paginated-document replacer, lines 29-53, on one page.  A page is    *)
(* its blocks; a text block has lines, a line has spans, a span has a text *)
(* and a size.                                                             *)

Span(text, size) == [text |-> text, size |-> size]
TextBlock(lines) == [type |-> "text", lines |-> lines]
ImageBlock == [type |-> "image", lines |-> <<>>]

DefaultFontSize == 12

FoldAll(s) == [k \in DOMAIN s |-> Fold(s[k])]

\* page.search_for(needle) on the text of one span: it ignores case
SearchHit(text, needle) == Contains(FoldAll(text), FoldAll(needle))

\* the spans of the page, as <<block, line, span>> positions, in page order
SpanPositions(pg) ==
    {<<b, l, k>> \in (DOMAIN pg) \X (1 .. 2) \X (1 .. 2) :
        /\ l \in DOMAIN pg[b].lines
        /\ k \in DOMAIN pg[b].lines[l]}

Before(x, y) ==
    \/ x[1] < y[1]
    \/ x[1] = y[1] /\ x[2] < y[2]
    \/ x[1] = y[1] /\ x[2] = y[2] /\ x[3] < y[3]

\* a set of positions as a sequence in page order
RECURSIVE InOrder(_)
InOrder(S) ==
    IF S = {} THEN <<>>
    ELSE LET x == CHOOSE y \in S : \A z \in S \ {y} : Before(y, z)
         IN  <<x>> \o InOrder(S \ {x})

\* page.search_for(old_text): one region per span the text is found in
search_for(pg, needle) ==
    InOrder({x \in SpanPositions(pg) :
                SearchHit(pg[x[1]].lines[x[2]][x[3]].text, needle)})

\* the text of a span with the found glyphs erased
RECURSIVE Erase(_, _)
Erase(text, needle) ==
    LET i == Find(FoldAll(text), FoldAll(needle), 1)
    IN  IF i = 0 THEN text
        ELSE SubSeq(text, 1, i - 1)
             \o Erase(SubSeq(text, i + Len(needle), Len(text)), needle)

HasText(span) == span.text # <<>>
HasSpans(line) == line # <<>>
HasContent(block) == block.type = "image" \/ block.lines # <<>>

\* add_redact_annot for every region, then apply_redactions: the glyphs in
\* the regions are gone, and with them the spans, lines and blocks left empty
apply_redactions(pg, needle) ==
    SelectSeq(
        [b \in DOMAIN pg |->
            [type |-> pg[b].type,
             lines |-> SelectSeq(
                 [l \in DOMAIN pg[b].lines |->
                     SelectSeq([k \in DOMAIN pg[b].lines[l] |->
                                   Span(Erase(pg[b].lines[l][k].text, needle),
                                        pg[b].lines[l][k].size)],
                               HasText)],
                 HasSpans)]],
        HasContent)

\* lines 43-46: within a line the first span containing old sets the size
\* and ends the scan of that line
RECURSIVE SizeInLine(_, _, _, _)
SizeInLine(line, old, k, cur) ==
    IF k > Len(line) THEN cur
    ELSE IF Contains(line[k].text, old) THEN line[k].size
    ELSE SizeInLine(line, old, k + 1, cur)

\* line 42: the lines of a block, in order
RECURSIVE SizeInLines(_, _, _, _)
SizeInLines(lines, old, l, cur) ==
    IF l > Len(lines) THEN cur
    ELSE SizeInLines(lines, old, l + 1, SizeInLine(lines[l], old, 1, cur))

\* lines 40-41: the blocks that have lines, in order
RECURSIVE SizeInBlocks(_, _, _, _)
SizeInBlocks(blocks, old, b, cur) ==
    IF b > Len(blocks) THEN cur
    ELSE SizeInBlocks(blocks, old, b + 1,
                      IF blocks[b].type = "text"
                      THEN SizeInLines(blocks[b].lines, old, 1, cur)
                      ELSE cur)

\* lines 39-46: original_fontsize for one region
original_fontsize(info, old) == SizeInBlocks(info, old, 1, DefaultFontSize)

\* lines of a page: with and without OldText, in either case, in two sizes
PageLines ==
    { <<Span(<<"f">>, 10)>>,
      <<Span(<<"g", "f">>, 14), Span(<<"f">>, 10)>>,
      <<Span(<<"F">>, 14)>>,
      <<Span(<<"g">>, 10)>>,
      <<Span(<<"g">>, 10), Span(<<"f">>, 14)>> }

PageBlocks ==
    {ImageBlock} \cup {TextBlock(ls) : ls \in UNION {[1 .. n -> PageLines] : n \in 1 .. 2}}

InitPdf ==
    /\ FileIdle
    /\ WebIdle
    /\ PureIdle
    /\ old_text = OldText
    /\ new_text = NewText
    /\ tree = NoTree
    /\ outTree = NoTree
    /\ pass1 = NoResult
    /\ pass2 = NoResult
    /\ page \in UNION {[1 .. n -> PageBlocks] : n \in 1 .. MaxBlocks}
    /\ page0 = page
    /\ pdfpc = "search"
    /\ text_instances = <<>>
    /\ original_text_info = <<>>
    /\ inserted = <<>>

\* line 30, and line 31 when nothing is found: the page is left as it is
SearchFor ==
    /\ pdfpc = "search"
    /\ text_instances' = search_for(page, old_text)
    /\ pdfpc' = IF search_for(page, old_text) = <<>> THEN "done" ELSE "info"
    /\ UNCHANGED <<fileVars, webVars, pureVars, old_text, new_text, tree, outTree,
                   pass1, pass2, page, page0, original_text_info, inserted>>

\* line 32: the structured text of the page is read
GetTextInfo ==
    /\ pdfpc = "info"
    /\ original_text_info' = page
    /\ pdfpc' = "redact"
    /\ UNCHANGED <<fileVars, webVars, pureVars, old_text, new_text, tree, outTree,
                   pass1, pass2, page, page0, text_instances, inserted>>

\* lines 34-36: the regions are redacted
Redact ==
    /\ pdfpc = "redact"
    /\ page' = apply_redactions(page, old_text)
    /\ pdfpc' = "insert"
    /\ UNCHANGED <<fileVars, webVars, pureVars, old_text, new_text, tree, outTree,
                   pass1, pass2, page0, text_instances, original_text_info, inserted>>

\* InsertText taking the size from the page as it is now
InsertTextFromPage ==
    /\ pdfpc = "insert"
    /\ Len(inserted) < Len(text_instances)
    /\ LET size == original_fontsize(page, old_text)
       IN  /\ page' = Append(page, TextBlock(<<<<Span(new_text, size)>>>>))
           /\ inserted' = Append(inserted, size)
    /\ pdfpc' = IF Len(inserted) + 1 = Len(text_instances) THEN "done" ELSE "insert"
    /\ UNCHANGED <<fileVars, webVars, pureVars, old_text, new_text, tree, outTree,
                   pass1, pass2, page0, text_instances, original_text_info>>

\* lines 38-53: for the next region the size is looked up in the structured
\* text read at line 32 and new_text is inserted with it
InsertText ==
    /\ pdfpc = "insert"
    /\ Len(inserted) < Len(text_instances)
    /\ LET size == original_fontsize(original_text_info, old_text)
       IN  /\ page' = Append(page, TextBlock(<<<<Span(new_text, size)>>>>))
           /\ inserted' = Append(inserted, size)
    /\ pdfpc' = IF Len(inserted) + 1 = Len(text_instances) THEN "done" ELSE "insert"
    /\ UNCHANGED <<fileVars, webVars, pureVars, old_text, new_text, tree, outTree,
                   pass1, pass2, page0, text_instances, original_text_info>>

NextPdf ==
    \/ SearchFor
    \/ GetTextInfo
    \/ Redact
    \/ InsertText

SpecPdf == InitPdf /\ [][NextPdf]_vars

\* the sizes of the spans of a page whose text contains old
MatchingSizes(pg, old) ==
    {pg[x[1]].lines[x[2]][x[3]].size :
        x \in {y \in SpanPositions(pg) : Contains(pg[y[1]].lines[y[2]][y[3]].text, old)}}

\* C17: every size a replacement is inserted with is the size of a span of
\* the unmodified page whose text contains old_text, or 12 when the
\* unmodified page has no such span
FontSizeFromOriginalPage ==
    \A k \in DOMAIN inserted :
        IF MatchingSizes(page0, old_text) = {}
        THEN inserted[k] = DefaultFontSize
        ELSE inserted[k] \in MatchingSizes(page0, old_text)

\* all the replacements of a page with two regions were inserted, after the
\* redaction had removed the spans the size was taken from
W_FontSizeFromOriginalPage ==
    /\ pdfpc = "done"
    /\ Len(inserted) >= 2
    /\ inserted[1] # DefaultFontSize
    /\ MatchingSizes(apply_redactions(page0, old_text), old_text) = {}

----------------------------------------------------------------------------
(* Members of one batch against each other *)

\* the content a member has when extractall has written it
AsUnpacked(p) == ExtractFs(fs0, extract_folder, fs0[zip_path].entries)[p]

\* C16: the replacer of every member that yields an output reads that
\* member's own content as unpacked, whatever other members the archive has
\* and whatever the order of the walk, so the output depends on nothing else
MembersIndependent ==
    \A k \in OkCalls :
        calls[k].path \in unpacked => calls[k].before = AsUnpacked(calls[k].path)

\* C18: every file is handed to the dispatcher at most once and no output
\* produced by an earlier call is handed to the dispatcher as an input
NoOutputPickedUp ==
    /\ \A i, j \in DOMAIN calls : calls[i].path = calls[j].path => i = j
    /\ \A i, j \in DOMAIN calls :
          (i < j /\ calls[i].ok) => calls[j].path # calls[i].ret.path

----------------------------------------------------------------------------
(* upload_file, lines 188-298.  An archive among the uploads is handed to   *)
(* extract_zip_and_process, whose steps are the actions of Spec.           *)

\* uuid.uuid4() of the successive saves of one request
UploadUuids == <<"u0", "u2", "u3", "u4">>

\* archives a request may carry: empty, with no supported member, with a
\* member that fails, with a member that succeeds, with one of each, and one
\* that cannot be unpacked
UploadContainers ==
    { Zip(<<>>),
      Zip(<<Entry(<<"b", ".txt">>, FALSE, Text(<<"f">>))>>),
      Zip(<<Entry(<<"a", ".csv">>, FALSE, Corrupt)>>),
      Zip(<<Entry(<<"a", ".csv">>, FALSE, Text(<<"f">>))>>),
      Zip(<<Entry(<<"a", ".csv">>, FALSE, Text(<<"f">>)),
            Entry(<<"a", ".pdf">>, FALSE, Corrupt)>>),
      BadZip(<<>>) }

\* the files a request may carry; secure_filename leaves these names as
\* they are
UploadFiles ==
    { Upload(<<"a", ".csv">>, Text(<<"f">>)),
      Upload(<<"a", ".csv">>, Corrupt),
      Upload(<<"b", ".txt">>, Text(<<"f">>)) }
    \cup {Upload(<<"a", ".zip">>, c) : c \in UploadContainers}

IsZip(file) == Lower(SplitExt(file.filename)) = ".zip"

\* line 231: f"modified_{filename}"
DownloadName(filename) == <<"modified_">> \o filename

Sent(path, name) == [path |-> path, name |-> name]

\* line 260-261: the archive of a request with several outputs
BundlePath == Join(UPLOAD_FOLDER, <<"modified_files_", "u9", ".zip">>)

\* os.remove of every listed path that exists
RemoveAll(fsx, paths) ==
    [p \in {q \in DOMAIN fsx : \A i \in DOMAIN paths : paths[i] # q} |-> fsx[p]]

SentPaths == [i \in DOMAIN sent_files |-> sent_files[i].path]

InitUpload ==
    /\ PureIdle
    /\ DocIdle
    /\ old_text \in {<<>>, OldText}
    /\ new_text = NewText
    /\ fs = <<>>
    /\ fs0 = <<>>
    /\ dirs = {UPLOAD_FOLDER}
    /\ zip_path = <<>>
    /\ extract_folder = <<>>
    /\ pc = "idle"
    /\ pendingDirs = {}
    /\ curFiles = {}
    /\ processed_files = <<>>
    /\ unpacked = {}
    /\ calls = <<>>
    /\ outcome = "running"
    /\ ret = NoneRet
    /\ request \in UNION {[1 .. n -> UploadFiles] : n \in 0 .. MaxFiles}
    /\ upc = "start"
    /\ temp_files = <<>>
    /\ sent_files = <<>>
    /\ response = NoResponse
    /\ cleaner = "none"
    /\ reader = "none"
    /\ procs = <<>>
    /\ touched = <<>>

\* lines 191-200: the form is validated
UploadValidate ==
    /\ upc = "start"
    /\ IF old_text = <<>>
       THEN /\ response' = Response(400, <<>>, "Text to find is required", NoFile)
            /\ upc' = "done"
       ELSE IF request = <<>>
       THEN /\ response' = Response(400, <<>>, "No files selected", NoFile)
            /\ upc' = "done"
       ELSE /\ upc' = "loop"
            /\ UNCHANGED response
    /\ UNCHANGED <<fileVars, pureVars, docVars, old_text, new_text, request,
                   temp_files, sent_files, cleaner, reader, procs, touched>>

\* lines 210-214: an upload whose extension is not accepted ends the request
UploadUnsupported ==
    /\ upc = "loop"
    /\ request # <<>>
    /\ Lower(SplitExt(Head(request).filename)) \notin supported_extensions \cup {".zip"}
    /\ response' = Response(400, <<>>, "Unsupported file type", Head(request))
    /\ upc' = "done"
    /\ UNCHANGED <<fileVars, pureVars, docVars, old_text, new_text, request,
                   temp_files, sent_files, cleaner, reader, procs, touched>>

\* lines 217-235 for a single file: it is saved and dispatched; an output is
\* appended, no output ends the request
UploadSingle ==
    /\ upc = "loop"
    /\ request # <<>>
    /\ Lower(SplitExt(Head(request).filename)) \in supported_extensions
    /\ LET file == Head(request)
           file_path == UploadPath(UploadUuids[Len(temp_files) + 1], file.filename)
           r == process_single_file(WriteFile(fs, file_path, file.content), dirs,
                                    file_path, old_text, new_text)
       IN  /\ fs' = r.fs
           /\ temp_files' = Append(temp_files, file_path)
           /\ IF r.ret.isNone
              THEN /\ response' = Response(400, <<>>, "Failed to process", file)
                   /\ upc' = "done"
                   /\ UNCHANGED sent_files
              ELSE /\ sent_files' = Append(sent_files,
                                           Sent(r.ret.path, DownloadName(file.filename)))
                   /\ UNCHANGED <<response, upc>>
    /\ request' = Tail(request)
    /\ UNCHANGED <<pureVars, docVars, old_text, new_text, dirs, fs0, zip_path,
                   extract_folder, pc, pendingDirs, curFiles, processed_files,
                   unpacked, calls, outcome, ret, cleaner, reader, procs, touched>>

\* lines 217-225 for an archive: it is saved and extract_zip_and_process is
\* called on it
UploadArchive ==
    /\ upc = "loop"
    /\ request # <<>>
    /\ IsZip(Head(request))
    /\ LET file == Head(request)
           file_path == UploadPath(UploadUuids[Len(temp_files) + 1], file.filename)
       IN  /\ fs' = WriteFile(fs, file_path, file.content)
           /\ fs0' = WriteFile(fs, file_path, file.content)
           /\ temp_files' = Append(temp_files, file_path)
           /\ zip_path' = file_path
    /\ pc' = "start"
    /\ extract_folder' = <<>>
    /\ pendingDirs' = {}
    /\ curFiles' = {}
    /\ processed_files' = <<>>
    /\ unpacked' = {}
    /\ calls' = <<>>
    /\ outcome' = "running"
    /\ ret' = NoneRet
    /\ upc' = "batch"
    /\ UNCHANGED <<pureVars, docVars, old_text, new_text, dirs, request, sent_files,
                   response, cleaner, reader, procs, touched>>

\* lines 229-245 for an archive: the batch returned an archive, returned
\* None, or raised
UploadAfterBatch ==
    /\ upc = "batch"
    /\ pc = "done"
    /\ pc' = "idle"
    /\ IF outcome = "raised"
       THEN /\ fs' = RemoveAll(fs, temp_files)
            /\ response' = Response(500, <<>>, "Error processing", Head(request))
            /\ upc' = "done"
            /\ UNCHANGED sent_files
       ELSE IF ret.isNone
       THEN /\ response' = Response(400, <<>>, "Failed to process", Head(request))
            /\ upc' = "done"
            /\ UNCHANGED <<fs, sent_files>>
       ELSE /\ sent_files' = Append(sent_files,
                                    Sent(ret.path, DownloadName(Head(request).filename)))
            /\ upc' = "loop"
            /\ UNCHANGED <<fs, response>>
    /\ request' = Tail(request)
    /\ UNCHANGED <<pureVars, docVars, old_text, new_text, dirs, fs0, zip_path,
                   extract_folder, pendingDirs, curFiles, processed_files, unpacked,
                   calls, outcome, ret, temp_files, cleaner, reader, procs, touched>>

\* lines 247-295: the response is built, the cleanup thread is started and
\* the response is returned
UploadRespond ==
    /\ upc = "loop"
    /\ request = <<>>
    /\ upc' = "done"
    /\ IF sent_files = <<>>
       THEN /\ response' = Response(400, <<>>, "No files were processed successfully", NoFile)
            /\ UNCHANGED <<fs, sent_files, cleaner, reader>>
       ELSE IF Len(sent_files) = 1
       THEN IF sent_files[1].path \in DOMAIN fs
            THEN /\ response' = Response(200, sent_files[1].path, "", NoFile)
                 /\ cleaner' = "sleeping"
                 /\ reader' = "reading"
                 /\ UNCHANGED <<fs, sent_files>>
            ELSE /\ response' = Response(500, <<>>, "Server error", NoFile)
                 /\ UNCHANGED <<fs, sent_files, cleaner, reader>>
       ELSE IF \A i \in DOMAIN sent_files : sent_files[i].path \in DOMAIN fs
            THEN /\ fs' = WriteFile(fs, BundlePath,
                            Zip([i \in DOMAIN sent_files |->
                                    Entry(sent_files[i].name, FALSE, fs[sent_files[i].path])]))
                 /\ sent_files' = Append(sent_files, Sent(BundlePath, Basename(BundlePath)))
                 /\ response' = Response(200, BundlePath, "", NoFile)
                 /\ cleaner' = "sleeping"
                 /\ reader' = "reading"
            ELSE /\ response' = Response(500, <<>>, "Server error", NoFile)
                 /\ UNCHANGED <<fs, sent_files, cleaner, reader>>
    /\ UNCHANGED <<pureVars, docVars, old_text, new_text, dirs, fs0, zip_path,
                   extract_folder, pc, pendingDirs, curFiles, processed_files,
                   unpacked, calls, outcome, ret, request, temp_files, procs, touched>>

\* the client has read the whole body of the response
ReadResponse ==
    /\ reader = "reading"
    /\ reader' = "done"
    /\ UNCHANGED <<fileVars, pureVars, docVars, old_text, new_text, request, upc,
                   temp_files, sent_files, response, cleaner, procs, touched>>

\* lines 278-289: the cleanup thread wakes up from its sleep and removes the
\* saved uploads and the outputs
cleanup_files ==
    /\ cleaner = "sleeping"
    /\ fs' = RemoveAll(RemoveAll(fs, temp_files), SentPaths)
    /\ cleaner' = "done"
    /\ UNCHANGED <<pureVars, docVars, old_text, new_text, dirs, fs0, zip_path,
                   extract_folder, pc, pendingDirs, curFiles, processed_files,
                   unpacked, calls, outcome, ret, request, upc, temp_files,
                   sent_files, response, reader, procs, touched>>

NextUpload ==
    \/ UploadValidate
    \/ UploadUnsupported
    \/ UploadSingle
    \/ UploadArchive
    \/ MakeScratch
    \/ UnpackOk
    \/ UnpackFail
    \/ WalkScan
    \/ WalkSkip
    \/ WalkProcess
    \/ Repack
    \/ ReturnNone
    \/ Cleanup
    \/ UploadAfterBatch
    \/ UploadRespond
    \/ ReadResponse
    \/ cleanup_files

SpecUpload == InitUpload /\ [][NextUpload]_vars

\* C13: an error response that names an uploaded archive is given only when
\* the container of that archive cannot be unpacked; an archive whose batch
\* is empty or partial is not answered with an error
ArchiveErrorOnlyWhenUnreadable ==
    (response.status >= 400 /\ IsZip(response.file)) =>
        response.file.content.kind # "zip"

\* C14: as long as the response that sends an output file has not been read
\* to its end, the cleanup thread has not removed that file
DeliveredBeforeDestroyed ==
    (response.status = 200 /\ reader # "done") => response.path \in DOMAIN fs

----------------------------------------------------------------------------
(* Two requests served at the same time: each saves its upload under a     *)
(* fresh uuid (lines 217-220) and calls the core on it (lines 223-227).    *)
(* The invocations share the file system and nothing else; procs holds the *)
(* locals of each, touched the paths each has written or deleted.          *)

Invocations == {1, 2}

\* uuid.uuid4() at line 217 and at line 141 of each invocation
SaveUuids == <<"u0", "u2">>
ScratchUuids == <<"u1", "u3">>

\* what each request uploads: an archive with a member that succeeds, one
\* with a member in a directory and an unsupported member, one that cannot
\* be unpacked to its end, and single files
ParUploads ==
    { Upload(<<"a", ".zip">>, Zip(<<Entry(<<"a", ".csv">>, FALSE, Text(<<"f">>))>>)),
      Upload(<<"a", ".zip">>, Zip(<<Entry(<<"x", ".csv", "/", "a", ".csv">>, FALSE, Text(<<"f">>)),
                                    Entry(<<"b", ".txt">>, FALSE, Text(<<"f">>))>>)),
      Upload(<<"a", ".zip">>, BadZip(<<Entry(<<"a", ".csv">>, FALSE, Text(<<"f">>)),
                                       Entry(<<"a", ".pdf">>, FALSE, Corrupt)>>)),
      Upload(<<"a", ".csv">>, Text(<<"f">>)),
      Upload(<<"a", "_modified", ".csv">>, Corrupt) }

\* the locals of an invocation that has not started
Locals(path) ==
    [zip_path |-> path, extract_folder |-> <<>>, pc |-> "start",
     pendingDirs |-> {}, curFiles |-> {}, processed_files |-> <<>>,
     outcome |-> "running", ret |-> NoneRet]

InitPar ==
    /\ PureIdle
    /\ DocIdle
    /\ old_text = OldText
    /\ new_text = NewText
    /\ \E u \in [Invocations -> ParUploads] :
          /\ fs = [q \in {UploadPath(SaveUuids[p], u[p].filename) : p \in Invocations} |->
                      u[CHOOSE p \in Invocations :
                            UploadPath(SaveUuids[p], u[p].filename) = q].content]
          /\ procs = [p \in Invocations |->
                         Locals(UploadPath(SaveUuids[p], u[p].filename))]
    /\ fs0 = fs
    /\ dirs = {UPLOAD_FOLDER}
    /\ zip_path = <<>>
    /\ extract_folder = <<>>
    /\ pc = "idle"
    /\ pendingDirs = {}
    /\ curFiles = {}
    /\ processed_files = <<>>
    /\ unpacked = {}
    /\ calls = <<>>
    /\ outcome = "running"
    /\ ret = NoneRet
    /\ request = <<>>
    /\ upc = "idle"
    /\ temp_files = <<>>
    /\ sent_files = <<>>
    /\ response = NoResponse
    /\ cleaner = "none"
    /\ reader = "none"
    /\ touched = [p \in Invocations |-> {}]

\* the variables no step of an invocation changes
parFrame ==
    <<pureVars, docVars, old_text, new_text, fs0, zip_path, extract_folder, pc,
      pendingDirs, curFiles, processed_files, unpacked, calls, outcome, ret,
      request, upc, temp_files, sent_files, response, cleaner, reader>>

\* the paths extractall writes for the entries es: files and directories
ExtractPaths(folder, es) ==
    {Join(folder, es[i].name) : i \in DOMAIN es}
    \cup UNION {Parents(Join(folder, es[i].name), folder) : i \in DOMAIN es}

\* lines 226-227: process_single_file on a saved upload that is no archive
ParSingle ==
    \E p \in Invocations :
        /\ procs[p].pc = "start"
        /\ Lower(SplitExt(procs[p].zip_path)) # ".zip"
        /\ LET r == process_single_file(fs, dirs, procs[p].zip_path, old_text, new_text)
           IN  /\ fs' = r.fs
               /\ procs' = [procs EXCEPT ![p].pc = "done", ![p].ret = r.ret,
                                         ![p].outcome = "returned"]
               /\ touched' = [touched EXCEPT ![p] =
                                 @ \cup (IF r.ret.isNone THEN {} ELSE {r.ret.path})]
        /\ UNCHANGED <<dirs, parFrame>>

\* lines 141-142 of one invocation
ParMakeScratch ==
    \E p \in Invocations :
        /\ procs[p].pc = "start"
        /\ Lower(SplitExt(procs[p].zip_path)) = ".zip"
        /\ dirs' = dirs \cup {ScratchPath(ScratchUuids[p])}
        /\ procs' = [procs EXCEPT ![p].pc = "unpack",
                                  ![p].extract_folder = ScratchPath(ScratchUuids[p])]
        /\ touched' = [touched EXCEPT ![p] = @ \cup {ScratchPath(ScratchUuids[p])}]
        /\ UNCHANGED <<fs, parFrame>>

\* lines 148-149 of one invocation: all entries are written, or extractall
\* raises after the first k
ParUnpack ==
    \E p \in Invocations :
        /\ procs[p].pc = "unpack"
        /\ LET me == procs[p]
               all == fs[me.zip_path].entries
               good == fs[me.zip_path].kind = "zip"
           IN  \E k \in 0 .. Len(all) :
                  /\ IF good THEN k = Len(all) ELSE k < Len(all) \/ all = <<>>
                  /\ LET es == SubSeq(all, 1, k)
                     IN  /\ fs' = ExtractFs(fs, me.extract_folder, es)
                         /\ dirs' = ExtractDirs(dirs, me.extract_folder, es)
                         /\ touched' = [touched EXCEPT ![p] =
                                           @ \cup ExtractPaths(me.extract_folder, es)]
                  /\ procs' = [procs EXCEPT
                                  ![p].pc = IF good THEN "walk" ELSE "finally",
                                  ![p].outcome = IF good THEN "running" ELSE "raising",
                                  ![p].pendingDirs = IF good THEN {me.extract_folder} ELSE {}]
        /\ UNCHANGED parFrame

\* line 152 of one invocation
ParWalkScan ==
    \E p \in Invocations :
        /\ procs[p].pc = "walk"
        /\ procs[p].curFiles = {}
        /\ \E d \in procs[p].pendingDirs :
              procs' = [procs EXCEPT
                  ![p].curFiles = {q \in DOMAIN fs : Dirname(q) = d},
                  ![p].pendingDirs = (@ \ {d}) \cup {q \in dirs : Dirname(q) = d}]
        /\ UNCHANGED <<fs, dirs, touched, parFrame>>

\* lines 153-164 of one invocation: the next listed file is passed over or
\* dispatched
ParWalkFile ==
    \E p \in Invocations :
        /\ procs[p].pc = "walk"
        /\ \E f \in procs[p].curFiles :
              IF Lower(SplitExt(Basename(f))) \in supported_extensions
              THEN LET r == process_single_file(fs, dirs, f, old_text, new_text)
                   IN  /\ fs' = r.fs
                       /\ procs' = [procs EXCEPT
                              ![p].curFiles = @ \ {f},
                              ![p].processed_files =
                                  IF r.ret.isNone THEN @ ELSE Append(@, r.ret.path)]
                       /\ touched' = [touched EXCEPT ![p] =
                              @ \cup (IF r.ret.isNone THEN {} ELSE {r.ret.path})]
              ELSE /\ procs' = [procs EXCEPT ![p].curFiles = @ \ {f}]
                   /\ UNCHANGED <<fs, touched>>
        /\ UNCHANGED <<dirs, parFrame>>

\* lines 167-175 of one invocation: the outputs are packed, or None is
\* returned
ParFinish ==
    \E p \in Invocations :
        /\ procs[p].pc = "walk"
        /\ procs[p].curFiles = {}
        /\ procs[p].pendingDirs = {}
        /\ LET me == procs[p]
               out == OutputZip(me.zip_path)
           IN  IF me.processed_files = <<>>
               THEN /\ procs' = [procs EXCEPT ![p].pc = "finally",
                                              ![p].outcome = "returning"]
                    /\ UNCHANGED <<fs, touched>>
               ELSE IF /\ Writable(dirs, out)
                       /\ \A i \in DOMAIN me.processed_files :
                             me.processed_files[i] \in DOMAIN fs
               THEN /\ fs' = WriteFile(fs, out, Repacked(fs, me.processed_files))
                    /\ procs' = [procs EXCEPT ![p].pc = "finally",
                                              ![p].outcome = "returning",
                                              ![p].ret = PathRet(out)]
                    /\ touched' = [touched EXCEPT ![p] = @ \cup {out}]
               ELSE /\ procs' = [procs EXCEPT ![p].pc = "finally",
                                              ![p].outcome = "raising"]
                    /\ UNCHANGED <<fs, touched>>
        /\ UNCHANGED <<dirs, parFrame>>

\* lines 177-180 of one invocation
ParCleanup ==
    \E p \in Invocations :
        /\ procs[p].pc = "finally"
        /\ LET folder == procs[p].extract_folder
           IN  /\ IF folder \in dirs
                  THEN /\ fs' = RmTreeFs(fs, folder)
                       /\ dirs' = RmTreeDirs(dirs, folder)
                  ELSE UNCHANGED <<fs, dirs>>
               /\ touched' = [touched EXCEPT ![p] =
                     @ \cup (IF folder \in dirs
                             THEN {folder} \cup {q \in DOMAIN fs \cup dirs : Under(q, folder)}
                             ELSE {})]
        /\ procs' = [procs EXCEPT
                        ![p].pc = "done",
                        ![p].outcome = IF @ = "raising" THEN "raised" ELSE "returned"]
        /\ UNCHANGED parFrame

NextPar ==
    \/ ParSingle
    \/ ParMakeScratch
    \/ ParUnpack
    \/ ParWalkScan
    \/ ParWalkFile
    \/ ParFinish
    \/ ParCleanup

SpecPar == InitPar /\ [][NextPar]_vars

\* x is the input of invocation q, its scratch directory or below it, or a
\* path q has written
BelongsTo(x, q) ==
    \/ x = procs[q].zip_path
    \/ /\ procs[q].extract_folder # <<>>
       /\ x = procs[q].extract_folder \/ Under(x, procs[q].extract_folder)
    \/ x \in touched[q]

\* C15: of two invocations running at the same time on inputs saved under
\* distinct names, neither writes or deletes a path that belongs to the
\* other, in any interleaving
NoInterference ==
    \A p, q \in Invocations :
        p # q => \A x \in touched[p] : ~BelongsTo(x, q)

\* one invocation has returned its archive and removed its scratch directory
\* while the other, on an upload of the same name, is in the middle of its
\* walk with a member output written
W_NoInterference ==
    \E p, q \in Invocations :
        /\ procs[p].pc = "done"
        /\ ~procs[p].ret.isNone
        /\ procs[q].pc = "walk"
        /\ procs[q].processed_files # <<>>
        /\ Basename(procs[p].zip_path)[3] = Basename(procs[q].zip_path)[3]

====
